---- MODULE Spec2Model ----
(***************************************************************************)
(* Model of src/vlamax.py, a Streamlit script.  Streamlit executes the     *)
(* whole script top to bottom on every run; a run is started by the first  *)
(* page load and by every later interaction (the form's "Analyze" button,  *)
(* the download button).  One behaviour of this model is one browser       *)
(* session: the widget values the script reads, then the script's          *)
(* statements in program order, then a rerun.                              *)
(*                                                                         *)
(* Number representation.  The script computes on Python/numpy floats.     *)
(* Every quantity is kept here as an exact integer multiple of a fixed     *)
(* unit, chosen so that each division the script performs on the sampled   *)
(* points is exact:                                                        *)
(*   vo2max                  tenths of ml/kg/min                           *)
(*   intensities, zone bounds  1/HrScale  (1/20)                           *)
(*   lactate                 1/LactScale  (1/120 mmol/L)                   *)
(*   vo2_steady              1/Vo2Scale   (1/1000 ml/kg/min)               *)
(*   vo2_actual              1/(Vo2Scale*ExpScale)                         *)
(*   o2_demand               whole units (the array is an integer array)   *)
(*   fat_cal, carb_cal       1/PctScale   (1/100 kcal/min)                 *)
(* np.exp is the one transcendental function; it is tabulated to 1e-4.     *)
(***************************************************************************)
EXTENDS Integers, Sequences, FiniteSets

\* ---------------------------------------------------------------- bounds
\* Heart-rate widget values tried: 0..MaxSmallHr and a few realistic ones.
MaxSmallHr == 1
\* Sprint-power widget values tried: 0..MaxSmallPower and 800 W.
MaxSmallPower == 1
\* VO2max widget values tried (tenths): 0..MaxSmallVo2, 20.0 and 50.0.
MaxSmallVo2 == 1

HrInputs == (0 .. MaxSmallHr) \cup {140, 165, 189, 190}
PowerInputs == (0 .. MaxSmallPower) \cup {800}
Vo2Inputs == (0 .. MaxSmallVo2) \cup {200, 500}

\* ---------------------------------------------------------------- units
HrScale == 20
LactScale == 120
Vo2Scale == 1000
ExpScale == 10000
PctScale == 100

\* ---------------------------------------------------------------- state
VARIABLES
    vo2max, lt1_hr, lt2_hr, max_hr, sprint_power, notes, submitted,  \* form values
    pc,            \* position of the run in the script
    message,       \* what the validation block rendered
    intensities, lactate,
    vo2_actual, o2_demand,
    fat_pct, carb_pct, calories, fat_cal, carb_cal,
    zones, zone_lines,
    charts,        \* charts handed to st.plotly_chart
    report,        \* lines of the PDF offered for download
    exception      \* exception that ended the run, if any

vars == << vo2max, lt1_hr, lt2_hr, max_hr, sprint_power, notes, submitted, pc, message,
           intensities, lactate, vo2_actual, o2_demand,
           fat_pct, carb_pct, calories, fat_cal, carb_cal,
           zones, zone_lines, charts, report, exception >>

inputs == << vo2max, lt1_hr, lt2_hr, max_hr, sprint_power >>
lactateVars == << intensities, lactate >>
vo2Vars == << vo2_actual, o2_demand >>
fuelVars == << fat_pct, carb_pct, calories, fat_cal, carb_cal >>
zoneVars == << zones, zone_lines >>

\* ValidationMessage with the two checks in the other order.
ValidationMessage_OrderFirst(sub, v, l1, l2, m, s) ==
    IF ~sub THEN "none"
    ELSE IF ~(l1 < l2 /\ l2 < m) THEN "error_order"
    ELSE IF v <= 0 \/ l1 <= 0 \/ l2 <= 0 \/ m <= 0 \/ s <= 0 THEN "error_required"
    ELSE "success"

\* ------------------------------------------------------------ validation
\* Lines 24-32: the message the validation block renders.
ValidationMessage(sub, v, l1, l2, m, s) ==
    IF ~sub THEN "none"
    ELSE IF v <= 0 \/ l1 <= 0 \/ l2 <= 0 \/ m <= 0 \/ s <= 0 THEN "error_required"
    ELSE IF ~(l1 < l2 /\ l2 < m) THEN "error_order"
    ELSE "success"

\* ----------------------------------------------------------- lactate curve
NumLactate == 15

\* Line 35, np.linspace(a, b, n)[i] for i = 0..n-1: a + i*(b-a)/(n-1).
Linspace(a, b, n, i) == a + (i * (b - a)) \div (n - 1)

\* Intensity with the endpoint excluded (linspace(..., endpoint=False)).
Intensity_NoEndpoint(i, S) ==
    Linspace((4 * HrScale) \div 10, (11 * HrScale) \div 10, NumLactate + 1, i) * S

\* Line 35: the i-th intensity (i = 0..14), linspace(0.4, 1.1, 15)[i] * sprint_power.
Intensity(i, S) == Linspace((4 * HrScale) \div 10, (11 * HrScale) \div 10, NumLactate, i) * S

\* The products 0.6*sprint_power, 0.9*sprint_power, 0.3*sprint_power and
\* 0.2*sprint_power of lines 39-44: n tenths of S.
Frac(n, S) == (n * HrScale * S) \div 10

\* Line 40: 1 + 0.5 * (p/(0.6*sprint_power)).
LactateSlow(p, S) ==
    IF Frac(6, S) = 0 THEN "nan"
    ELSE LactScale + ((LactScale \div 2) * p) \div Frac(6, S)

\* LactateModerate starting from 1.6 instead of 1.5.
LactateModerate_Offset(p, S) ==
    IF Frac(3, S) = 0 THEN "nan"
    ELSE (8 * LactScale) \div 5 + (2 * LactScale * (p - Frac(6, S))) \div Frac(3, S)

\* Line 42: 1.5 + 2 * ((p - 0.6*sprint_power)/(0.3*sprint_power)).
LactateModerate(p, S) ==
    IF Frac(3, S) = 0 THEN "nan"
    ELSE (3 * LactScale) \div 2 + (2 * LactScale * (p - Frac(6, S))) \div Frac(3, S)

\* Line 44: 3.5 + 5 * ((p - 0.9*sprint_power)/(0.2*sprint_power)).
LactateSharp(p, S) ==
    IF Frac(2, S) = 0 THEN "nan"
    ELSE (7 * LactScale) \div 2 + (5 * LactScale * (p - Frac(9, S))) \div Frac(2, S)

\* Lines 39-44: the branch taken for one sample p.
LactateAt(p, S) ==
    IF p < Frac(6, S) THEN LactateSlow(p, S)
    ELSE IF p < Frac(9, S) THEN LactateModerate(p, S)
    ELSE LactateSharp(p, S)

\* ------------------------------------------------------------ VO2 kinetics
NumTime == 60
TimeStep == 5
tau == 40

\* Line 56: np.arange(0, 300, 5)[k] for k = 0..59.
TimeAt(k) == TimeStep * k

\* Line 59: np.exp(-time/tau) at time = 0, 5, ..., 295 with tau = 40, i.e.
\* e^(-k/8) for k = 0..59, in units of 1/ExpScale (rounded to nearest).
ExpTable ==
    << 10000, 8825, 7788, 6873, 6065, 5353, 4724, 4169, 3679, 3247,
       2865, 2528, 2231, 1969, 1738, 1534, 1353, 1194, 1054, 930,
       821, 724, 639, 564, 498, 439, 388, 342, 302, 266,
       235, 208, 183, 162, 143, 126, 111, 98, 87, 76,
       67, 59, 52, 46, 41, 36, 32, 28, 25, 22,
       19, 17, 15, 13, 12, 10, 9, 8, 7, 6 >>

ExpNeg(t) == ExpTable[(t * 8) \div tau + 1]

\* Line 58: vo2max * 0.85, in 1/Vo2Scale; v is vo2max in tenths.
Vo2Steady(v) == (v * (Vo2Scale \div 10) * 85) \div 100

\* Line 59: vo2_steady * (1 - exp(-t/tau)), in 1/(Vo2Scale*ExpScale).
Vo2Actual(v, t) == Vo2Steady(v) * (ExpScale - ExpNeg(t))

\* Line 60: np.full_like(time, vo2_steady).  time is an integer array
\* (np.arange over ints), so the result has integer dtype and the fill value
\* is cast to it: truncation toward zero.  Whole units.
O2Demand(v) == Vo2Steady(v) \div Vo2Scale

\* --------------------------------------------------------------- fuel split
NumFuel == 11
total_cal == 10

Clip(x, lo, hi) == IF x < lo THEN lo ELSE IF x > hi THEN hi ELSE x

\* Line 68: np.linspace(50, 100, 11)[i].
IntensityPct(i) == Linspace(50, 100, NumFuel, i)

\* FatPct without the -50 offset of the intensity.
FatPct_NoOffset(I) == Clip(80 - (8 * I) \div 5, 0, 80)

\* Line 70: np.clip(80 - 8*(intensity_pct-50)/5, 0, 80).
FatPct(I) == Clip(80 - (8 * (I - 50)) \div 5, 0, 80)

\* Line 71: 100 - fat_pct.
CarbPct(f) == 100 - f

\* Line 73: total_cal * (intensity_pct/50), kcal/min.
Calories(I) == (total_cal * I) \div 50

\* Lines 74-75: calories * pct / 100, in 1/PctScale kcal/min.
FuelCal(c, pct) == (c * pct * PctScale) \div 100

\* Zones with the Zone 4/5 boundary at 90% of HRmax.
Zones_Ninety(LT1, LT2, HRmax) ==
    << [label |-> "Zone 1 (Easy/Recovery)", low |-> 0, high |-> HrScale * LT1],
       [label |-> "Zone 2 (Endurance)", low |-> HrScale * LT1,
        high |-> (HrScale * (LT1 + LT2)) \div 2],
       [label |-> "Zone 3 (Threshold)", low |-> (HrScale * (LT1 + LT2)) \div 2,
        high |-> HrScale * LT2],
       [label |-> "Zone 4 (Interval)", low |-> HrScale * LT2,
        high |-> (90 * HrScale * HRmax) \div 100],
       [label |-> "Zone 5 (Max Effort)", low |-> (90 * HrScale * HRmax) \div 100,
        high |-> HrScale * HRmax] >>

\* -------------------------------------------------------------------- zones
\* Lines 83-93: the zones dictionary, in insertion order; bounds in 1/HrScale.
Zones(LT1, LT2, HRmax) ==
    << [label |-> "Zone 1 (Easy/Recovery)", low |-> 0, high |-> HrScale * LT1],
       [label |-> "Zone 2 (Endurance)", low |-> HrScale * LT1,
        high |-> (HrScale * (LT1 + LT2)) \div 2],
       [label |-> "Zone 3 (Threshold)", low |-> (HrScale * (LT1 + LT2)) \div 2,
        high |-> HrScale * LT2],
       [label |-> "Zone 4 (Interval)", low |-> HrScale * LT2,
        high |-> (95 * HrScale * HRmax) \div 100],
       [label |-> "Zone 5 (Max Effort)", low |-> (95 * HrScale * HRmax) \div 100,
        high |-> HrScale * HRmax] >>

\* Lines 97 and 117: the format {x:.0f}, round-half-to-even to a whole bpm.
Round0(x) ==
    LET q == x \div HrScale
        r == x % HrScale
    IN  IF 2 * r < HrScale THEN q
        ELSE IF 2 * r > HrScale THEN q + 1
        ELSE IF q % 2 = 0 THEN q ELSE q + 1

\* Lines 96-97 and 116-117: one displayed zone line.
ZoneLine(z) == [label |-> z.label, low |-> Round0(z.low), high |-> Round0(z.high)]

\* ------------------------------------------------------------ the script
Init ==
    /\ vo2max \in Vo2Inputs
    /\ lt1_hr \in HrInputs
    /\ lt2_hr \in HrInputs
    /\ max_hr \in HrInputs
    /\ sprint_power \in PowerInputs
    /\ notes \in {"", "text"}
    /\ submitted \in BOOLEAN
    /\ pc = "validate"
    /\ message = "none"
    /\ intensities = << >> /\ lactate = << >>
    /\ vo2_actual = << >> /\ o2_demand = << >>
    /\ fat_pct = << >> /\ carb_pct = << >> /\ calories = << >>
    /\ fat_cal = << >> /\ carb_cal = << >>
    /\ zones = << >> /\ zone_lines = << >>
    /\ charts = {}
    /\ report = << >>
    /\ exception = "none"

Validate ==
    /\ pc = "validate"
    /\ message' = ValidationMessage(submitted, vo2max, lt1_hr, lt2_hr, max_hr, sprint_power)
    /\ pc' = "intensities"
    /\ UNCHANGED << inputs, submitted, notes, lactateVars, vo2Vars, fuelVars, zoneVars,
                    charts, report, exception >>

\* Lines 35-37: the intensity samples and the empty lactate list.
Intensities ==
    /\ pc = "intensities"
    /\ intensities' = [i \in 1 .. NumLactate |-> Intensity(i - 1, sprint_power)]
    /\ lactate' = << >>
    /\ pc' = "lactate_loop"
    /\ UNCHANGED << inputs, submitted, notes, message, vo2Vars, fuelVars, zoneVars,
                    charts, report, exception >>

\* Lines 38-44: one iteration of the loop over intensities.
LactateStep ==
    /\ pc = "lactate_loop"
    /\ Len(lactate) < Len(intensities)
    /\ lactate' = Append(lactate, LactateAt(intensities[Len(lactate) + 1], sprint_power))
    /\ UNCHANGED << inputs, submitted, notes, pc, message, intensities, vo2Vars, fuelVars,
                    zoneVars, charts, report, exception >>

\* Lines 45-53: the loop is over; the lactate chart is rendered.
LactateChart ==
    /\ pc = "lactate_loop"
    /\ Len(lactate) = Len(intensities)
    /\ charts' = charts \cup {"lactate"}
    /\ pc' = "vo2"
    /\ UNCHANGED << inputs, submitted, notes, message, lactateVars, vo2Vars, fuelVars,
                    zoneVars, report, exception >>

\* Lines 56-66: the two VO2 series and their chart.
VO2Kinetics ==
    /\ pc = "vo2"
    /\ vo2_actual' = [k \in 1 .. NumTime |-> Vo2Actual(vo2max, TimeAt(k - 1))]
    /\ o2_demand' = [k \in 1 .. NumTime |-> O2Demand(vo2max)]
    /\ charts' = charts \cup {"vo2"}
    /\ pc' = "fuel"
    /\ UNCHANGED << inputs, submitted, notes, message, lactateVars, fuelVars, zoneVars,
                    report, exception >>

\* Lines 68-80: the fuel-split series and their chart.
FuelSplit ==
    /\ pc = "fuel"
    /\ fat_pct' = [i \in 1 .. NumFuel |-> FatPct(IntensityPct(i - 1))]
    /\ carb_pct' = [i \in 1 .. NumFuel |-> CarbPct(FatPct(IntensityPct(i - 1)))]
    /\ calories' = [i \in 1 .. NumFuel |-> Calories(IntensityPct(i - 1))]
    /\ fat_cal' = [i \in 1 .. NumFuel |->
                     FuelCal(Calories(IntensityPct(i - 1)), FatPct(IntensityPct(i - 1)))]
    /\ carb_cal' = [i \in 1 .. NumFuel |->
                     FuelCal(Calories(IntensityPct(i - 1)),
                             CarbPct(FatPct(IntensityPct(i - 1))))]
    /\ charts' = charts \cup {"energy"}
    /\ pc' = "zones"
    /\ UNCHANGED << inputs, submitted, notes, message, lactateVars, vo2Vars, zoneVars,
                    report, exception >>

\* Lines 82-97: the zones and their display.
DeriveZones ==
    /\ pc = "zones"
    /\ zones' = Zones(lt1_hr, lt2_hr, max_hr)
    /\ zone_lines' = [i \in 1 .. Len(Zones(lt1_hr, lt2_hr, max_hr)) |->
                        ZoneLine(Zones(lt1_hr, lt2_hr, max_hr)[i])]
    /\ pc' = "pdf"
    /\ UNCHANGED << inputs, submitted, notes, message, lactateVars, vo2Vars, fuelVars,
                    charts, report, exception >>

\* Lines 99-124: the PDF report and its download button.
PdfReport ==
    /\ pc = "pdf"
    /\ report' = << [line |-> "summary", vo2max |-> vo2max, lt1 |-> lt1_hr,
                     lt2 |-> lt2_hr, max |-> max_hr, power |-> sprint_power] >>
                 \o [i \in 1 .. Len(zones) |-> ZoneLine(zones[i])]
                 \o (IF notes # "" THEN << [line |-> "notes", text |-> notes] >>
                     ELSE << >>)
    /\ pc' = "tail"
    /\ UNCHANGED << inputs, submitted, notes, message, lactateVars, vo2Vars, fuelVars,
                    zoneVars, charts, exception >>

\* Lines 126-146: the cached helper is only defined; on a submitted run the
\* final block calls create_pdf, a name the script never defines.
FinalBlock ==
    /\ pc = "tail"
    /\ exception' = IF submitted THEN "NameError" ELSE "none"
    /\ pc' = "done"
    /\ UNCHANGED << inputs, submitted, notes, message, lactateVars, vo2Vars, fuelVars,
                    zoneVars, charts, report >>

\* A rerun starts the script afresh: its variables and the page are rebuilt,
\* the widgets keep their values.
Restart(sub) ==
    /\ submitted' = sub
    /\ pc' = "validate"
    /\ message' = "none"
    /\ intensities' = << >> /\ lactate' = << >>
    /\ vo2_actual' = << >> /\ o2_demand' = << >>
    /\ fat_pct' = << >> /\ carb_pct' = << >> /\ calories' = << >>
    /\ fat_cal' = << >> /\ carb_cal' = << >>
    /\ zones' = << >> /\ zone_lines' = << >>
    /\ charts' = {}
    /\ report' = << >>
    /\ exception' = "none"
    /\ UNCHANGED << inputs, notes >>

\* Line 21: the user presses "Analyze"; the button reads True in the rerun.
ClickAnalyze ==
    /\ pc = "done"
    /\ Restart(TRUE)

\* Line 124: the user presses the download button; the form's submit button
\* reads False in the rerun.
ClickDownload ==
    /\ pc = "done"
    /\ report # << >>
    /\ Restart(FALSE)

Next ==
    \/ Validate
    \/ Intensities
    \/ LactateStep
    \/ LactateChart
    \/ VO2Kinetics
    \/ FuelSplit
    \/ DeriveZones
    \/ PdfReport
    \/ FinalBlock
    \/ ClickAnalyze
    \/ ClickDownload

Spec == Init /\ [][Next]_vars
\* =================================================================== claims
\* The profile invariant of the specification: every input strictly positive
\* and lt1Hr < lt2Hr < maxHr.
NonPositive ==
    vo2max <= 0 \/ lt1_hr <= 0 \/ lt2_hr <= 0 \/ max_hr <= 0 \/ sprint_power <= 0

ValidProfile == ~NonPositive /\ lt1_hr < lt2_hr /\ lt2_hr < max_hr

\* Some curve, zone, chart or report exists in the current run.
AnyResult ==
    \/ intensities # << >> \/ lactate # << >>
    \/ vo2_actual # << >> \/ o2_demand # << >>
    \/ fat_pct # << >> \/ fat_cal # << >> \/ carb_cal # << >>
    \/ zones # << >> \/ zone_lines # << >>
    \/ charts # {} \/ report # << >>

\* C1: curves, zones, charts and the report exist only in a run whose form
\* was submitted and whose inputs are a valid profile.
C1_ComputationGated == AnyResult => (submitted /\ ValidProfile)

\* C2: on a submitted form the validation renders exactly one of the three
\* outcomes; it rejects exactly when some input is non-positive or
\* lt1Hr >= lt2Hr or lt2Hr >= maxHr, the positivity error taking precedence,
\* and shows success in every other case.
C2_ValidationOutcome ==
    (pc # "validate" /\ submitted) =>
        /\ message \in {"error_required", "error_order", "success"}
        /\ (message # "success") <=>
               (NonPositive \/ lt1_hr >= lt2_hr \/ lt2_hr >= max_hr)
        /\ NonPositive => message = "error_required"
        /\ (~NonPositive /\ (lt1_hr >= lt2_hr \/ lt2_hr >= max_hr))
               => message = "error_order"

C2_Witness ==
    /\ pc # "validate" /\ submitted
    /\ vo2max = 0 /\ lt1_hr >= lt2_hr
    /\ message = "error_required"

\* C3: for a valid profile the generated zone boundaries form the strict
\* chain lt1Hr < (lt1Hr+lt2Hr)/2 < lt2Hr < 0.95*maxHr < maxHr.
C3_BoundaryChain ==
    (zones # << >> /\ 0 < lt1_hr /\ lt1_hr < lt2_hr /\ lt2_hr < max_hr) =>
        /\ zones[1].high < zones[2].high
        /\ zones[2].high < zones[3].high
        /\ zones[3].high < zones[4].high
        /\ zones[4].high < zones[5].high

\* C4: for a profile that passed validation every generated zone has
\* lowerBound <= upperBound.
C4_ZoneBoundsOrdered ==
    (zones # << >> /\ message = "success") =>
        \A i \in 1 .. Len(zones) : zones[i].low <= zones[i].high

\* C5: exactly five zones, in the fixed order and naming, with bounds
\* (0, LT1), (LT1, (LT1+LT2)/2), ((LT1+LT2)/2, LT2), (LT2, 0.95*maxHr),
\* (0.95*maxHr, maxHr); contiguous from 0 to maxHr; and the profile
\* 140/165/190 gives Zone 4 = [165, 180.5], Zone 5 = [180.5, 190].
C5_FiveContiguousZones ==
    zones # << >> =>
        /\ Len(zones) = 5
        /\ [i \in 1 .. 5 |-> zones[i].label] =
               << "Zone 1 (Easy/Recovery)", "Zone 2 (Endurance)", "Zone 3 (Threshold)",
                  "Zone 4 (Interval)", "Zone 5 (Max Effort)" >>
        /\ zones[1].low = 0
        /\ zones[1].high = HrScale * lt1_hr
        /\ 2 * zones[2].high = HrScale * (lt1_hr + lt2_hr)
        /\ zones[3].high = HrScale * lt2_hr
        /\ 100 * zones[4].high = 95 * HrScale * max_hr
        /\ zones[5].high = HrScale * max_hr
        /\ \A i \in 1 .. 4 : zones[i].high = zones[i + 1].low
        /\ (lt1_hr = 140 /\ lt2_hr = 165 /\ max_hr = 190) =>
               /\ zones[4].low = 165 * HrScale
               /\ 2 * zones[4].high = 361 * HrScale
               /\ 2 * zones[5].low = 361 * HrScale
               /\ zones[5].high = 190 * HrScale

C5_Witness ==
    /\ zones # << >>
    /\ lt1_hr = 140 /\ lt2_hr = 165 /\ max_hr = 190
    /\ message = "success"

\* C6: at every one of the 60 time samples the O2-demand series equals
\* 0.85 * vo2max exactly (vo2max is in tenths, so 0.85*vo2max = 85*vo2max/1000).
C6_DemandExact ==
    o2_demand # << >> =>
        /\ Len(o2_demand) = 60
        /\ \A k \in 1 .. Len(o2_demand) : 1000 * o2_demand[k] = 85 * vo2max

\* C7: for vo2max > 0, vo2Actual is below o2Demand at every sample, is 0 at
\* t = 0 and is strictly increasing along the samples.
C7_ActualBelowDemand ==
    (vo2_actual # << >> /\ vo2max > 0) =>
        /\ \A k \in 1 .. Len(vo2_actual) :
               vo2_actual[k] < o2_demand[k] * Vo2Scale * ExpScale
        /\ vo2_actual[1] = 0
        /\ \A k \in 1 .. Len(vo2_actual) - 1 : vo2_actual[k] < vo2_actual[k + 1]

\* C8: for sprintPower S > 0 the first and second formulas both give 1.5 at
\* p = 0.6S and the second and third both give 3.5 at p = 0.9S, so the
\* samples at 0.6S and 0.9S get that value whichever branch takes them.
C8_LactateContinuous ==
    (sprint_power > 0 /\ Len(lactate) = 15) =>
        /\ 10 * intensities[5] = 6 * HrScale * sprint_power
        /\ 2 * LactateSlow(intensities[5], sprint_power) = 3 * LactScale
        /\ 2 * LactateModerate(intensities[5], sprint_power) = 3 * LactScale
        /\ 2 * lactate[5] = 3 * LactScale
        /\ 10 * intensities[11] = 9 * HrScale * sprint_power
        /\ 2 * LactateModerate(intensities[11], sprint_power) = 7 * LactScale
        /\ 2 * LactateSharp(intensities[11], sprint_power) = 7 * LactScale
        /\ 2 * lactate[11] = 7 * LactScale

C8_Witness ==
    /\ sprint_power = 800 /\ Len(lactate) = 15
    /\ intensities[5] = 480 * HrScale /\ intensities[11] = 720 * HrScale

\* C9: for sprintPower S > 0 the lactate curve has exactly 15 samples at
\* evenly spaced intensities from 0.4S to 1.1S inclusive, and the lactate
\* values are non-decreasing, from 4/3 at 0.4S to 8.5 at 1.1S.
C9_LactateSamples ==
    (sprint_power > 0 /\ pc \notin {"validate", "intensities", "lactate_loop"}) =>
        /\ Len(intensities) = 15 /\ Len(lactate) = 15
        /\ 10 * intensities[1] = 4 * HrScale * sprint_power
        /\ 10 * intensities[15] = 11 * HrScale * sprint_power
        /\ \A i \in 1 .. 13 :
               intensities[i + 1] - intensities[i] = intensities[i + 2] - intensities[i + 1]
        /\ \A i \in 1 .. 14 : intensities[i] < intensities[i + 1]
        /\ \A i \in 1 .. 14 : lactate[i] <= lactate[i + 1]
        /\ 3 * lactate[1] = 4 * LactScale
        /\ 2 * lactate[15] = 17 * LactScale

C9_Witness ==
    /\ sprint_power = 800 /\ pc = "vo2"
    /\ Len(lactate) = 15 /\ "lactate" \in charts

\* C10: for each of the 11 fuel-split samples (intensity 50, 55, ..., 100)
\* fatPct + carbPct = 100 and fatKcal + carbKcal = totalKcal = 10*intensity/50,
\* with fatPct within [0, 80] and non-increasing, 80 at 50 down to 0 at 100.
C10_FuelSplit ==
    fat_pct # << >> =>
        /\ Len(fat_pct) = 11 /\ Len(carb_pct) = 11 /\ Len(calories) = 11
        /\ Len(fat_cal) = 11 /\ Len(carb_cal) = 11
        /\ \A i \in 1 .. 11 :
               /\ fat_pct[i] + carb_pct[i] = 100
               /\ fat_cal[i] + carb_cal[i] = PctScale * calories[i]
               /\ 50 * calories[i] = 10 * (50 + 5 * (i - 1))
               /\ 0 <= fat_pct[i] /\ fat_pct[i] <= 80
        /\ \A i \in 1 .. 10 : fat_pct[i] >= fat_pct[i + 1]
        /\ fat_pct[1] = 80
        /\ fat_pct[11] = 0

C10_Witness ==
    /\ pc = "zones" /\ "energy" \in charts
    /\ Len(fat_cal) = 11 /\ fat_cal[1] = 8 * PctScale /\ carb_cal[11] = 20 * PctScale
====
